---- MODULE Spec2Model ----
(***************************************************************************)
(* hera-workflows: the graph-to-specification compiler.                    *)
(*   src/src/hera/dag.py       DAG (pipeline)                              *)
(*   src/src/hera/workflow.py  Workflow (top-level assembler)              *)
(* hera.task.Task and hera.dag_context are not part of the sources at hand *)
(* and are modelled from the specification (sections 4.1, 6).              *)
(*                                                                         *)
(* Python's Optional[X] is a sequence of length 0 (None) or 1 (the value), *)
(* so that a None list and an empty list are different values.             *)
(* A call's outcome is a record [exc, val]: exc = "" when it returned val, *)
(* otherwise the name of the exception it raised.                          *)
(***************************************************************************)
EXTENDS Integers, Sequences, FiniteSets, TLC

VARIABLES
    dag_obj,        \* DAG objects: name -> [inputs, outputs, tasks, in_context]
    task_obj,       \* Task objects in construction order: [name, dag, is_exit_task, vcts, pvcs]
    wf,             \* the Workflow: [inputs, on_exit_, in_context]  (its dag is RootName)
    context_stack,  \* hera.dag_context._context_stack
    scopes,         \* the caller's open `with` blocks, innermost last
    service_calls,  \* calls made to Service.create_workflow
    parse_arg,      \* argument of the last normalisation call
    result,         \* the last call: [op, args, exc, val]
    session         \* concurrent authoring sessions (threads): id -> [pc, unit, alone]

vars == <<dag_obj, task_obj, wf, context_stack, scopes, service_calls, parse_arg, result,
          session>>

\* ------------------------------------------------------------------ bounds
MaxTasks == 3       \* Task objects constructed while a graph is put together
MaxSessionTasks == 2 \* Task objects constructed in a session that opens scopes
MaxOwned == 3       \* length of one pipeline's task list
MaxScopes == 2      \* nesting depth of `with` blocks
MaxCalls == 1       \* calls to the submission service
MaxLen == 2         \* length of a list handed to _parse_inputs / _parse_metrics

\* ------------------------------------------------------------------ values
None == <<>>
Some(x) == <<x>>

Ok(v) == [exc |-> "", val |-> v]
Raise(e) == [exc |-> e, val |-> <<>>]

RootName == "hera-dag"
DagNames == {RootName, "a", "b"}
TaskNames == <<"t1", "t2", "t3", "t4", "t5", "t6">>
ExitWrapperName == "temp-name-for-hera-exit-dag"
ParamNames == {"p", "q"}

Parameter(n, v) == [kind |-> "Parameter", name |-> n, value |-> v]
Artifact(n, v) == [kind |-> "Artifact", name |-> n, value |-> v]
Lit(s) == <<"lit", s>>

RECURSIVE Flatten(_)
Flatten(ss) == IF ss = <<>> THEN <<>> ELSE Head(ss) \o Flatten(Tail(ss))

\* the exceptions of the calls caught and dropped
FirstRaise_swallowed(rs) == ""

\* the first exception raised by a sequence of calls evaluated left to right
FirstRaise(rs) ==
    LET bad == {i \in 1..Len(rs) : rs[i].exc # ""}
    IN IF bad = {} THEN "" ELSE rs[CHOOSE i \in bad : \A j \in bad : i <= j].exc

Top(s) == s[Len(s)]
Pop(s) == SubSeq(s, 1, Len(s) - 1)

\* ------------------------------------------------------------------ value objects
\* isinstance(i, Parameter): hera.parameter.Parameter
IsParameter(i) == i.kind = "Parameter"
\* isinstance(i, Artifact): one Artifact value-object type (spec, section 3)
IsArtifact(i) == i.kind = "Artifact"
IsDict(i) == i.kind = "dict"

\* for k, v in d.items(): result.append(Parameter(name=k, value=v))
DictParameters(entries) ==
    [j \in 1..Len(entries) |-> Parameter(entries[j].k, entries[j].v)]

\* the loop with the `elif isinstance(i, dict)` branch lost
RECURSIVE DAG_parse_list_no_dict(_, _)
DAG_parse_list_no_dict(items, acc) ==
    IF items = <<>> THEN acc
    ELSE DAG_parse_list_no_dict(Tail(items),
             IF IsParameter(Head(items)) \/ IsArtifact(Head(items))
             THEN Append(acc, Head(items)) ELSE acc)

\* the loop over a list argument, acc being `result` so far
RECURSIVE DAG_parse_list(_, _)
DAG_parse_list(items, acc) ==
    IF items = <<>> THEN acc
    ELSE LET i == Head(items)
         IN DAG_parse_list(Tail(items),
                IF IsParameter(i) \/ IsArtifact(i) THEN Append(acc, i)
                ELSE IF IsDict(i) THEN acc \o DictParameters(i.entries)
                ELSE acc)

RECURSIVE Workflow_parse_list(_, _)
Workflow_parse_list(items, acc) ==
    IF items = <<>> THEN acc
    ELSE LET i == Head(items)
         IN Workflow_parse_list(Tail(items),
                IF IsParameter(i) \/ IsArtifact(i) THEN Append(acc, i)
                ELSE IF IsDict(i) THEN acc \o DictParameters(i.entries)
                ELSE acc)

\* An argument is [shape, items]: shape "None", "dict" (items: the entries in
\* entry order), "list" (items: the elements) or "int" (a value that is neither).
DAG_parse_inputs(inputs) ==
    IF inputs.shape = "None" THEN Ok(<<>>)
    ELSE IF inputs.shape = "dict" THEN Ok(DictParameters(inputs.items))
    ELSE IF inputs.shape = "list" THEN Ok(DAG_parse_list(inputs.items, <<>>))
    ELSE Raise("TypeError")     \* `for i in inputs` over a non-iterable

Workflow_parse_inputs(inputs) ==
    IF inputs.shape = "None" THEN Ok(<<>>)
    ELSE IF inputs.shape = "dict" THEN Ok(DictParameters(inputs.items))
    ELSE IF inputs.shape = "list" THEN Ok(Workflow_parse_list(inputs.items, <<>>))
    ELSE Raise("TypeError")

\* An argument is [shape, items]: shape "None", "Prometheus", "list" (items: the
\* elements, each [kind]), "Metrics" (items: its prometheus list) or "int".
Workflow_parse_metrics(metrics) ==
    IF metrics.shape = "None" THEN Ok(None)
    ELSE IF metrics.shape = "Prometheus"
        THEN Ok(Some([prometheus |-> <<[kind |-> "Prometheus"]>>]))
    ELSE IF metrics.shape = "list"
        THEN IF \A j \in 1..Len(metrics.items) : metrics.items[j].kind = "Prometheus"
             THEN Ok(Some([prometheus |-> metrics.items]))
             ELSE Raise("AssertionError")
    ELSE IF metrics.shape = "Metrics" THEN Ok(Some([prometheus |-> metrics.items]))
    ELSE Raise("ValueError")

\* ------------------------------------------------------------------ Task (hera.task)
EmptyIO == [parameters |-> <<>>, artifacts |-> <<>>]

\* a Task that owns a DAG has no template of its own
Task_build_template(t) ==
    IF t.dag # None THEN None
    ELSE Some([name |-> t.name, inputs |-> EmptyIO, outputs |-> EmptyIO, dag |-> None])

\* the dependency descriptor: none for an exit task; the template it refers to is
\* the nested DAG's when it owns one
Task_build_dag_task(t) ==
    IF t.is_exit_task THEN None
    ELSE Some([name |-> t.name, template |-> IF t.dag # None THEN t.dag[1] ELSE t.name])

Task_build_volume_claim_templates(t) == t.vcts
Task_build_persistent_volume_claims(t) == t.pvcs

\* ------------------------------------------------------------------ DAG (hera.dag)
\* Python's recursion limit: a chain of nested calls longer than the number of
\* DAG objects revisits one of them, and then never ends by itself.
MaxDepth == Cardinality(DagNames) + 1

OwnedTasks(d) == [i \in 1..Len(dag_obj[d].tasks[1]) |-> task_obj[dag_obj[d].tasks[1][i]]]

RECURSIVE DAG_build_templates_rec(_, _)
DAG_build_templates_rec(d, depth) ==
    IF depth = 0 THEN Raise("RecursionError")
    ELSE IF dag_obj[d].tasks # None
    THEN LET ts == OwnedTasks(d)
             templates == Flatten([i \in 1..Len(ts) |-> Task_build_template(ts[i])])
             withDag == SelectSeq(ts, LAMBDA t : t.dag # None)
             sub_templates == [i \in 1..Len(withDag) |->
                                  DAG_build_templates_rec(withDag[i].dag[1], depth - 1)]
         IN IF FirstRaise(sub_templates) # "" THEN Raise(FirstRaise(sub_templates))
            ELSE Ok(templates \o Flatten([i \in 1..Len(withDag) |-> sub_templates[i].val]))
    ELSE Ok(<<>>)

DAG_build_templates(d) == DAG_build_templates_rec(d, MaxDepth)

\* the list with the test of is_exit_task turned around
DAG_build_dag_tasks_of_exit_tasks(d) ==
    IF dag_obj[d].tasks # None
    THEN Flatten([i \in 1..Len(SelectSeq(OwnedTasks(d), LAMBDA t : t.is_exit_task)) |->
                     Task_build_dag_task(SelectSeq(OwnedTasks(d), LAMBDA t : t.is_exit_task)[i])])
    ELSE <<>>

DAG_build_dag_tasks(d) ==
    IF dag_obj[d].tasks # None
    THEN Flatten([i \in 1..Len(SelectSeq(OwnedTasks(d), LAMBDA t : ~t.is_exit_task)) |->
                     Task_build_dag_task(SelectSeq(OwnedTasks(d), LAMBDA t : ~t.is_exit_task)[i])])
    ELSE <<>>

\* a dict that keeps the value a name was first given
DictSet_first_wins(items, v) ==
    IF \E j \in 1..Len(items) : items[j].name = v.name THEN items ELSE Append(items, v)

\* vcs[name] = v on a dict kept as the sequence of its items in insertion order
DictSet(items, v) ==
    IF \E j \in 1..Len(items) : items[j].name = v.name
    THEN [j \in 1..Len(items) |-> IF items[j].name = v.name THEN v ELSE items[j]]
    ELSE Append(items, v)

RECURSIVE DictSetAll(_, _)
DictSetAll(items, vs) ==
    IF vs = <<>> THEN items ELSE DictSetAll(DictSet(items, Head(vs)), Tail(vs))

RECURSIVE DAG_build_volume_claim_templates_rec(_, _)
DAG_build_volume_claim_templates_rec(d, depth) ==
    IF depth = 0 THEN Raise("RecursionError")
    ELSE IF dag_obj[d].tasks = None THEN Raise("TypeError")   \* `for t in self.tasks`
    ELSE LET ts == OwnedTasks(d)
             own == DictSetAll(<<>>,
                       Flatten([i \in 1..Len(ts) |-> Task_build_volume_claim_templates(ts[i])]))
             withDag == SelectSeq(ts, LAMBDA t : t.dag # None)
             sub_volume_claims == [i \in 1..Len(withDag) |->
                 DAG_build_volume_claim_templates_rec(withDag[i].dag[1], depth - 1)]
         IN IF FirstRaise(sub_volume_claims) # "" THEN Raise(FirstRaise(sub_volume_claims))
            ELSE Ok(DictSetAll(own,
                       Flatten([i \in 1..Len(withDag) |-> sub_volume_claims[i].val])))

DAG_build_volume_claim_templates(d) == DAG_build_volume_claim_templates_rec(d, MaxDepth)

RECURSIVE DAG_build_persistent_volume_claims_rec(_, _)
DAG_build_persistent_volume_claims_rec(d, depth) ==
    IF depth = 0 THEN Raise("RecursionError")
    ELSE IF dag_obj[d].tasks = None THEN Raise("TypeError")   \* `for t in self.tasks`
    ELSE LET ts == OwnedTasks(d)
             own == DictSetAll(<<>>,
                       Flatten([i \in 1..Len(ts) |-> Task_build_persistent_volume_claims(ts[i])]))
             withDag == SelectSeq(ts, LAMBDA t : t.dag # None)
             sub_volume_claims == [i \in 1..Len(withDag) |->
                 DAG_build_persistent_volume_claims_rec(withDag[i].dag[1], depth - 1)]
         IN IF FirstRaise(sub_volume_claims) # "" THEN Raise(FirstRaise(sub_volume_claims))
            ELSE Ok(DictSetAll(own,
                       Flatten([i \in 1..Len(withDag) |-> sub_volume_claims[i].val])))

DAG_build_persistent_volume_claims(d) == DAG_build_persistent_volume_claims_rec(d, MaxDepth)

\* build with `sub_dags + [dag]`: the nested pipelines' templates before the own one
RECURSIVE DAG_build_rec_children_first(_, _)
DAG_build_rec_children_first(d, depth) ==
    IF depth = 0 THEN Raise("RecursionError")
    ELSE IF dag_obj[d].outputs = None THEN Raise("TypeError")
    ELSE IF dag_obj[d].tasks = None THEN Raise("TypeError")
    ELSE LET dag == [name |-> d,
                     inputs |-> [parameters |-> SelectSeq(dag_obj[d].inputs, IsParameter),
                                 artifacts |-> SelectSeq(dag_obj[d].inputs, IsArtifact)],
                     outputs |-> [parameters |-> SelectSeq(dag_obj[d].outputs[1], IsParameter),
                                  artifacts |-> SelectSeq(dag_obj[d].outputs[1], IsArtifact)],
                     dag |-> Some([tasks |-> DAG_build_dag_tasks(d)])]
             withDag == SelectSeq(OwnedTasks(d), LAMBDA t : t.dag # None)
             sub_dags == [i \in 1..Len(withDag) |->
                             DAG_build_rec_children_first(withDag[i].dag[1], depth - 1)]
         IN IF FirstRaise(sub_dags) # "" THEN Raise(FirstRaise(sub_dags))
            ELSE Ok(Flatten([i \in 1..Len(withDag) |-> sub_dags[i].val]) \o <<dag>>)

RECURSIVE DAG_build_rec(_, _)
DAG_build_rec(d, depth) ==
    IF depth = 0 THEN Raise("RecursionError")
    ELSE IF dag_obj[d].outputs = None THEN Raise("TypeError")  \* `for obj in self.outputs`
    ELSE IF dag_obj[d].tasks = None THEN Raise("TypeError")    \* `for t in self.tasks`
    ELSE LET dag == [name |-> d,
                     inputs |-> [parameters |-> SelectSeq(dag_obj[d].inputs, IsParameter),
                                 artifacts |-> SelectSeq(dag_obj[d].inputs, IsArtifact)],
                     outputs |-> [parameters |-> SelectSeq(dag_obj[d].outputs[1], IsParameter),
                                  artifacts |-> SelectSeq(dag_obj[d].outputs[1], IsArtifact)],
                     dag |-> Some([tasks |-> DAG_build_dag_tasks(d)])]
             withDag == SelectSeq(OwnedTasks(d), LAMBDA t : t.dag # None)
             sub_dags == [i \in 1..Len(withDag) |-> DAG_build_rec(withDag[i].dag[1], depth - 1)]
         IN IF FirstRaise(sub_dags) # "" THEN Raise(FirstRaise(sub_dags))
            ELSE Ok(<<dag>> \o Flatten([i \in 1..Len(withDag) |-> sub_dags[i].val]))

DAG_build(d) == DAG_build_rec(d, MaxDepth)

DAG_get_parameter(d, name) ==
    IF dag_obj[d].outputs = None THEN Raise("TypeError")       \* `for p in self.outputs`
    ELSE IF ~\E j \in 1..Len(dag_obj[d].outputs[1]) : dag_obj[d].outputs[1][j].name = name
        THEN Raise("KeyError")
    ELSE Ok(Parameter(name, <<"inputs.parameters", name>>))

\* ------------------------------------------------------------------ Workflow (hera.workflow)
Workflow_build_spec ==
    LET sub == DAG_build_templates(RootName)
        top == DAG_build(RootName)
        vct == DAG_build_volume_claim_templates(RootName)
        pvc == DAG_build_persistent_volume_claims(RootName)
    IN IF FirstRaise(<<sub, top, vct, pvc>>) # "" THEN Raise(FirstRaise(<<sub, top, vct, pvc>>))
       ELSE Ok([arguments |-> [artifacts |-> SelectSeq(wf.inputs, IsArtifact),
                               parameters |-> SelectSeq(wf.inputs, IsParameter)],
                entrypoint |-> RootName,
                on_exit |-> wf.on_exit_,
                templates |-> sub.val \o top.val,
                volume_claim_templates |-> vct.val,
                volumes |-> pvc.val])

Workflow_build ==
    IF Workflow_build_spec.exc # "" THEN Raise(Workflow_build_spec.exc)
    ELSE Ok([kind |-> "Workflow", spec |-> Workflow_build_spec.val])

Workflow_get_parameter(name) ==
    LET parameters == SelectSeq(wf.inputs, IsParameter)
    IN IF ~\E j \in 1..Len(parameters) : parameters[j].name = name
       THEN Raise("KeyError")
       ELSE Ok(Parameter(name, <<"workflow.parameters", name>>))

\* ------------------------------------------------------------------ construction
\* DAG(name, outputs=..., tasks=...): in_context is not set by __init__
DAG_init(outputs, tasks) ==
    [inputs |-> DAG_parse_inputs([shape |-> "None", items |-> <<>>]).val,
     outputs |-> outputs, tasks |-> tasks, in_context |-> "unset"]

\* Workflow(name, inputs=...): dag = DAG(dag_name) unless one is given
Workflow_init(inputs) ==
    [inputs |-> Workflow_parse_inputs(inputs).val, on_exit_ |-> None, in_context |-> "unset"]

\* Task(name, dag=..., volumes=...) before it registers itself
Task_init(id, name, dag, vnames, pnames) ==
    [name |-> name, dag |-> dag, is_exit_task |-> FALSE,
     vcts |-> [j \in 1..Len(vnames) |-> [name |-> vnames[j], by |-> id]],
     pvcs |-> [j \in 1..Len(pnames) |-> [name |-> pnames[j], by |-> id]]]

\* DAG.add_task / DAG.add_tasks on the DAG objects ds: the lists after it, or the
\* exception of `None.append`
DAG_add_tasks(ds, d, ts) ==
    IF ds[d].tasks = None THEN Raise("AttributeError")
    ELSE Ok([ds EXCEPT ![d].tasks = Some(ds[d].tasks[1] \o ts)])

\* dag_context.enter / exit / add_task
dag_context_enter(stack, d) == Append(stack, d)
dag_context_exit(stack) == IF stack = <<>> THEN Raise("IndexError") ELSE Ok(Pop(stack))

Fits(d, n) == IF dag_obj[d].tasks = None THEN TRUE ELSE Len(dag_obj[d].tasks[1]) + n <= MaxOwned

Result(op, args, r) == [op |-> op, args |-> args, exc |-> r.exc, val |-> r.val]

\* Task.__init__: a Task constructed while a scope is open adds itself to the DAG
\* on top of the stack; the exception of add_task leaves the caller without it
NewTask(dag, vnames, pnames) ==
    /\ Len(task_obj) < MaxTasks
    /\ IF context_stack = <<>> THEN TRUE ELSE Fits(Top(context_stack), 1)
    /\ LET id == Len(task_obj) + 1
           t == Task_init(id, TaskNames[id], dag, vnames, pnames)
           added == DAG_add_tasks(dag_obj, Top(context_stack), <<id>>)
       IN IF context_stack = <<>>
          THEN /\ task_obj' = Append(task_obj, t)
               /\ dag_obj' = dag_obj
               /\ result' = Result("Task", <<id>>, Ok(<<>>))
          ELSE IF added.exc # ""
          THEN /\ UNCHANGED <<task_obj, dag_obj>>
               /\ result' = Result("Task", <<id>>, added)
          ELSE /\ task_obj' = Append(task_obj, t)
               /\ dag_obj' = added.val
               /\ result' = Result("Task", <<id>>, Ok(<<>>))
    /\ UNCHANGED <<wf, context_stack, scopes, service_calls, parse_arg, session>>

\* DAG.add_task(t)
DagAddTask(d, t) ==
    /\ t \in 1..Len(task_obj)
    /\ Fits(d, 1)
    /\ LET added == DAG_add_tasks(dag_obj, d, <<t>>)
       IN /\ dag_obj' = IF added.exc # "" THEN dag_obj ELSE added.val
          /\ result' = Result("DAG.add_task", <<d>>, [added EXCEPT !.val = <<>>])
    /\ UNCHANGED <<task_obj, wf, context_stack, scopes, service_calls, parse_arg, session>>

\* Workflow.add_tasks(t, u)
WfAddTasks(t, u) ==
    /\ t \in 1..Len(task_obj) /\ u \in 1..Len(task_obj)
    /\ Fits(RootName, 2)
    /\ LET added == DAG_add_tasks(dag_obj, RootName, <<t, u>>)
       IN /\ dag_obj' = IF added.exc # "" THEN dag_obj ELSE added.val
          /\ result' = Result("Workflow.add_tasks", <<>>, [added EXCEPT !.val = <<>>])
    /\ UNCHANGED <<task_obj, wf, context_stack, scopes, service_calls, parse_arg, session>>

\* ------------------------------------------------------------------ scopes
\* `with d:` entered
DagEnter(d) ==
    /\ Len(scopes) < MaxScopes
    /\ dag_obj' = [dag_obj EXCEPT ![d].in_context = "True"]
    /\ context_stack' = dag_context_enter(context_stack, d)
    /\ scopes' = Append(scopes, d)
    /\ result' = Result("DAG.__enter__", <<d>>, Ok(<<>>))
    /\ UNCHANGED <<task_obj, wf, service_calls, parse_arg, session>>

\* the innermost `with d:` block left
DagExit(d) ==
    /\ scopes # <<>> /\ Top(scopes) = d
    /\ dag_obj' = [dag_obj EXCEPT ![d].in_context = "False"]
    /\ context_stack' = IF dag_context_exit(context_stack).exc # "" THEN context_stack
                        ELSE dag_context_exit(context_stack).val
    /\ scopes' = Pop(scopes)
    /\ result' = Result("DAG.__exit__", <<d>>, [dag_context_exit(context_stack) EXCEPT !.val = <<>>])
    /\ UNCHANGED <<task_obj, wf, service_calls, parse_arg, session>>

\* `with w:` entered
WfEnter ==
    /\ Len(scopes) < MaxScopes
    /\ wf' = [wf EXCEPT !.in_context = "True"]
    /\ context_stack' = dag_context_enter(context_stack, RootName)
    /\ scopes' = Append(scopes, "workflow")
    /\ result' = Result("Workflow.__enter__", <<>>, Ok(<<>>))
    /\ UNCHANGED <<dag_obj, task_obj, service_calls, parse_arg, session>>

\* the innermost `with w:` block left
WfExit ==
    /\ scopes # <<>> /\ Top(scopes) = "workflow"
    /\ wf' = [wf EXCEPT !.in_context = "False"]
    /\ context_stack' = IF dag_context_exit(context_stack).exc # "" THEN context_stack
                        ELSE dag_context_exit(context_stack).val
    /\ scopes' = Pop(scopes)
    /\ result' = Result("Workflow.__exit__", <<>>, [dag_context_exit(context_stack) EXCEPT !.val = <<>>])
    /\ UNCHANGED <<dag_obj, task_obj, service_calls, parse_arg, session>>

\* ------------------------------------------------------------------ exit hook
\* Workflow.on_exit(other), other a Task
OnExitTask(t) ==
    /\ t \in 1..Len(task_obj)
    /\ task_obj[t].name # ExitWrapperName        \* the caller holds no wrapper
    /\ wf' = [wf EXCEPT !.on_exit_ = Some(task_obj[t].name)]
    /\ task_obj' = [task_obj EXCEPT ![t].is_exit_task = TRUE]
    /\ result' = Result("on_exit", <<"Task", t>>, Ok(<<>>))
    /\ UNCHANGED <<dag_obj, context_stack, scopes, service_calls, parse_arg, session>>

\* Workflow.on_exit(other), other a DAG: the wrapper Task registers itself as any
\* Task does; constructed with no scope open it is owned by nothing and is lost
\* when the call returns
OnExitDag(d) ==
    /\ IF context_stack = <<>> THEN TRUE
       ELSE Len(task_obj) < MaxTasks /\ Fits(Top(context_stack), 1)
    /\ LET id == Len(task_obj) + 1
           t == [Task_init(id, ExitWrapperName, Some(d), <<>>, <<>>) EXCEPT !.is_exit_task = TRUE]
           added == DAG_add_tasks(dag_obj, Top(context_stack), <<id>>)
       IN IF context_stack = <<>>
          THEN /\ UNCHANGED <<task_obj, dag_obj>>
               /\ wf' = [wf EXCEPT !.on_exit_ = Some(d)]
               /\ result' = Result("on_exit", <<"DAG", d>>, Ok(<<>>))
          ELSE IF added.exc # ""
          THEN /\ UNCHANGED <<task_obj, dag_obj, wf>>
               /\ result' = Result("on_exit", <<"DAG", d>>, added)
          ELSE /\ task_obj' = Append(task_obj, t)
               /\ dag_obj' = added.val
               /\ wf' = [wf EXCEPT !.on_exit_ = Some(d)]
               /\ result' = Result("on_exit", <<"DAG", d>>, Ok(<<>>))
    /\ UNCHANGED <<context_stack, scopes, service_calls, parse_arg, session>>

\* Workflow.on_exit(other), other neither a Task nor a DAG
OnExitOther ==
    /\ result' = Result("on_exit", <<"int">>, Raise("ValueError"))
    /\ UNCHANGED <<dag_obj, task_obj, wf, context_stack, scopes, service_calls, parse_arg, session>>

\* ------------------------------------------------------------------ concurrent sessions
\* Two threads, each running `with d: Task(...)` on a DAG of its own; what they
\* share is the one context stack of the process. pc is the statement the thread is
\* at, unit the Task it constructed (None when the constructor raised). alone is
\* not program state: it records that no other thread was inside its `with` block
\* while this one was.
SessionIds == {1, 2}
SessionDag(s) == IF s = 1 THEN "a" ELSE "b"
Session_init == [pc |-> "enter", unit |-> None, alone |-> TRUE]
Inside(s) == session[s].pc \in {"task", "exit"}

\* d.__enter__() of the thread's `with d:`
SessionEnter(s) ==
    /\ session[s].pc = "enter"
    /\ dag_obj' = [dag_obj EXCEPT ![SessionDag(s)].in_context = "True"]
    /\ context_stack' = dag_context_enter(context_stack, SessionDag(s))
    /\ session' = [o \in SessionIds |->
                      IF o = s
                      THEN [session[o] EXCEPT !.pc = "task",
                                              !.alone = \A q \in SessionIds \ {s} : ~Inside(q)]
                      ELSE IF Inside(o) THEN [session[o] EXCEPT !.alone = FALSE]
                      ELSE session[o]]
    /\ result' = Result("DAG.__enter__", <<SessionDag(s)>>, Ok(<<>>))
    /\ UNCHANGED <<task_obj, wf, scopes, service_calls, parse_arg>>

\* Task(...) in the body of the block: it adds itself to the DAG on top of the
\* stack, whichever thread pushed it; when add_task raises the block is left
SessionTask(s) ==
    /\ session[s].pc = "task"
    /\ Len(task_obj) < MaxTasks
    /\ IF context_stack = <<>> THEN TRUE ELSE Fits(Top(context_stack), 1)
    /\ LET id == Len(task_obj) + 1
           t == Task_init(id, TaskNames[id], None, <<>>, <<>>)
           added == DAG_add_tasks(dag_obj, Top(context_stack), <<id>>)
       IN IF context_stack = <<>>
          THEN /\ task_obj' = Append(task_obj, t)
               /\ dag_obj' = dag_obj
               /\ session' = [session EXCEPT ![s].pc = "exit", ![s].unit = Some(id)]
               /\ result' = Result("Task", <<id>>, Ok(<<>>))
          ELSE IF added.exc # ""
          THEN /\ UNCHANGED <<task_obj, dag_obj>>
               /\ session' = [session EXCEPT ![s].pc = "exit"]
               /\ result' = Result("Task", <<id>>, added)
          ELSE /\ task_obj' = Append(task_obj, t)
               /\ dag_obj' = added.val
               /\ session' = [session EXCEPT ![s].pc = "exit", ![s].unit = Some(id)]
               /\ result' = Result("Task", <<id>>, Ok(<<>>))
    /\ UNCHANGED <<wf, context_stack, scopes, service_calls, parse_arg>>

\* d.__exit__() of the thread's `with d:`: pops whatever is on top
SessionExit(s) ==
    /\ session[s].pc = "exit"
    /\ dag_obj' = [dag_obj EXCEPT ![SessionDag(s)].in_context = "False"]
    /\ context_stack' = IF dag_context_exit(context_stack).exc # "" THEN context_stack
                        ELSE dag_context_exit(context_stack).val
    /\ session' = [session EXCEPT ![s].pc = "done"]
    /\ result' = Result("DAG.__exit__", <<SessionDag(s)>>,
                        [dag_context_exit(context_stack) EXCEPT !.val = <<>>])
    /\ UNCHANGED <<task_obj, wf, scopes, service_calls, parse_arg>>

\* ------------------------------------------------------------------ build and submit
\* a pass that takes the units off the task lists as it visits them
Query_consuming(op, args, r) ==
    /\ result' = Result(op, args, r)
    /\ dag_obj' = [d \in DagNames |->
                      IF dag_obj[d].tasks = None THEN dag_obj[d]
                      ELSE [dag_obj[d] EXCEPT !.tasks = Some(<<>>)]]
    /\ UNCHANGED <<task_obj, wf, context_stack, scopes, service_calls, parse_arg, session>>

Query(op, args, r) ==
    /\ result' = Result(op, args, r)
    /\ UNCHANGED <<dag_obj, task_obj, wf, context_stack, scopes, service_calls, parse_arg, session>>

WfBuild == Query("Workflow.build", <<>>, Workflow_build)
DagBuild(d) == Query("DAG.build", <<d>>, DAG_build(d))
DagBuildTemplates(d) == Query("DAG._build_templates", <<d>>, DAG_build_templates(d))
DagBuildDagTasks(d) == Query("DAG._build_dag_tasks", <<d>>, Ok(DAG_build_dag_tasks(d)))
DagBuildVolumeClaimTemplates(d) ==
    Query("DAG._build_volume_claim_templates", <<d>>, DAG_build_volume_claim_templates(d))
DagBuildPersistentVolumeClaims(d) ==
    Query("DAG._build_persistent_volume_claims", <<d>>, DAG_build_persistent_volume_claims(d))
DagGetParameter(d, name) == Query("DAG.get_parameter", <<d, name>>, DAG_get_parameter(d, name))
WfGetParameter(name) == Query("Workflow.get_parameter", <<name>>, Workflow_get_parameter(name))

\* Workflow.create: the request is built before the service is called
Workflow_create ==
    IF wf.in_context = "unset" THEN Raise("AttributeError")   \* never set by __init__
    ELSE IF wf.in_context = "True" THEN Raise("ValueError")
    ELSE IF Workflow_build.exc # "" THEN Raise(Workflow_build.exc)
    ELSE Ok(<<"create_workflow">>)

Create ==
    /\ service_calls < MaxCalls
    /\ result' = Result("Workflow.create", <<>>, Workflow_create)
    /\ service_calls' = IF Workflow_create.exc = "" THEN service_calls + 1 ELSE service_calls
    /\ UNCHANGED <<dag_obj, task_obj, wf, context_stack, scopes, parse_arg, session>>

\* ------------------------------------------------------------------ normalisation calls
ParseCall(op, arg, r) ==
    /\ parse_arg' = arg
    /\ result' = Result(op, <<>>, r)
    /\ UNCHANGED <<dag_obj, task_obj, wf, context_stack, scopes, service_calls, session>>

DagParseInputs(inputs) == ParseCall("DAG._parse_inputs", inputs, DAG_parse_inputs(inputs))
WfParseInputs(inputs) == ParseCall("Workflow._parse_inputs", inputs, Workflow_parse_inputs(inputs))
WfParseMetrics(metrics) == ParseCall("Workflow._parse_metrics", metrics, Workflow_parse_metrics(metrics))

\* ------------------------------------------------------------------ inputs of the calls
RECURSIVE SeqsUpTo(_, _)
SeqsUpTo(S, n) ==
    IF n = 0 THEN {<<>>}
    ELSE SeqsUpTo(S, n - 1) \cup {Append(s, x) : s \in SeqsUpTo(S, n - 1), x \in S}

NoArg == [shape |-> "None", items |-> <<>>]
Entry(k, v) == [k |-> k, v |-> v]
\* the entries of a mapping: its keys differ
Mappings ==
    {<<>>} \cup {<<Entry(k, Lit("1"))>> : k \in ParamNames}
           \cup {<<Entry("p", Lit("1")), Entry("q", Lit("2"))>>,
                 <<Entry("q", Lit("2")), Entry("p", Lit("1"))>>}
Elements ==
    {Parameter("p", Lit("1")), Parameter("p", Lit("2")), Artifact("q", Lit("/f")), [kind |-> "other"]}
        \cup {[kind |-> "dict", entries |-> m] : m \in Mappings}
InputsArgs ==
    {NoArg, [shape |-> "int", items |-> <<>>]}
        \cup {[shape |-> "dict", items |-> m] : m \in Mappings}
        \cup {[shape |-> "list", items |-> l] : l \in SeqsUpTo(Elements, MaxLen)}
MetricsElements == {[kind |-> "Prometheus"], [kind |-> "other"]}
MetricsArgs ==
    {NoArg, [shape |-> "int", items |-> <<>>], [shape |-> "Prometheus", items |-> <<>>],
     [shape |-> "Metrics", items |-> <<[kind |-> "Prometheus"]>>]}
        \cup {[shape |-> "list", items |-> l] : l \in SeqsUpTo(MetricsElements, MaxLen)}

OutputsArgs == {None, Some(<<>>), Some(<<Parameter("p", Lit("1")), Artifact("q", Lit("/f"))>>)}
NoResult == Result("", <<>>, Ok(<<>>))

\* ------------------------------------------------------------------ the nesting graph
Range(s) == {s[i] : i \in 1..Len(s)}
Count(s, P(_)) == Cardinality({i \in 1..Len(s) : P(s[i])})

\* the DAGs nested by the units a DAG owns, in owned order
Children(d) ==
    IF dag_obj[d].tasks = None THEN <<>>
    ELSE LET withDag == SelectSeq(OwnedTasks(d), LAMBDA t : t.dag # None)
         IN [i \in 1..Len(withDag) |-> withDag[i].dag[1]]

RECURSIVE Closure(_, _)
Closure(S, n) ==
    IF n = 0 THEN S ELSE Closure(S \cup UNION {Range(Children(d)) : d \in S}, n - 1)

Below(d) == Closure(Range(Children(d)), Cardinality(DagNames))
Under(d) == {d} \cup Below(d)
Acyclic(d) == \A e \in Under(d) : e \notin Below(e)
AllLists(d) == \A e \in Under(d) : dag_obj[e].tasks # None /\ dag_obj[e].outputs # None

\* every DAG under d is nested by one unit only, every unit is owned once
IsTree(d) ==
    /\ Acyclic(d)
    /\ \A e \in Under(d) : Cardinality({<<f, i>> \in Under(d) \X (1..MaxOwned) :
                                i <= Len(Children(f)) /\ Children(f)[i] = e}) <= 1
    /\ \A t \in 1..Len(task_obj) : Cardinality({<<f, i>> \in Under(d) \X (1..MaxOwned) :
            dag_obj[f].tasks # None /\ i <= Len(dag_obj[f].tasks[1]) /\ dag_obj[f].tasks[1][i] = t}) <= 1

Owned(t) == \E d \in DagNames : dag_obj[d].tasks # None /\ t \in Range(dag_obj[d].tasks[1])

\* ------------------------------------------------------------------ specifications
WithLists == DAG_init(Some(<<Parameter("p", Lit("1"))>>), Some(<<>>))
Defaults == DAG_init(None, None)
DagCtorArgs == {Defaults, WithLists}
NestArgs == {None} \cup {Some(d) : d \in DagNames \ {RootName}}

Start(dags, inputs) ==
    /\ dag_obj \in dags
    /\ task_obj = <<>>
    /\ wf \in {Workflow_init(i) : i \in inputs}
    /\ context_stack = <<>>
    /\ scopes = <<>>
    /\ service_calls = 0
    /\ parse_arg = NoArg
    /\ result = NoResult
    /\ session = [s \in SessionIds |-> Session_init]

\* Spec: one authoring session on a Workflow whose root DAG and a second DAG "a"
\* were each constructed with the defaults or with their lists given; scopes are
\* opened and left, units constructed, the exit hook set, the workflow built and
\* submitted.
Init == Start({f \in [DagNames -> DagCtorArgs] : f["b"] = Defaults}, {NoArg})

Next ==
    \/ \E dag \in {None, Some("a")} : Len(task_obj) < MaxSessionTasks /\ NewTask(dag, <<>>, <<>>)
    \/ \E d \in {RootName, "a"} : DagEnter(d)
    \/ \E d \in DagNames : DagExit(d)
    \/ WfEnter
    \/ WfExit
    \/ \E t \in 1..MaxTasks : OnExitTask(t)
    \/ Len(task_obj) < MaxSessionTasks /\ OnExitDag("a")
    \/ OnExitOther
    \/ WfBuild
    \/ \E d \in {RootName, "a"} : DagBuildDagTasks(d)
    \/ Create

Spec == Init /\ [][Next]_vars

\* SpecBuild: a graph put together by hand, one unit at a time (each unit is
\* constructed and then added to one DAG), and compiled.
NoPending == \A t \in 1..Len(task_obj) : Owned(t)
AddsLatest(t) == t = Len(task_obj) /\ ~Owned(t)

InitBuild == Start([DagNames -> DagCtorArgs], {NoArg})

NextBuild ==
    \/ \E dag \in NestArgs : NoPending /\ NewTask(dag, <<>>, <<>>)
    \/ \E d \in DagNames, t \in 1..MaxTasks : AddsLatest(t) /\ DagAddTask(d, t)
    \/ WfBuild
    \/ \E d \in DagNames : DagBuild(d)
    \/ \E d \in DagNames : DagBuildTemplates(d)
    \/ \E d \in DagNames : DagBuildVolumeClaimTemplates(d)
    \/ \E d \in DagNames : DagBuildPersistentVolumeClaims(d)

SpecBuild == InitBuild /\ [][NextBuild]_vars

\* SpecRes: units that declare shared resources, nested root -> a -> b or
\* root -> b, and the two flattenings.
DeclArgs == {<<<<"v">>, <<"v">>>>, <<<<"w", "v">>, <<>>>>}
NestsUnder(d, dag) ==
    \/ dag = None
    \/ d = RootName
    \/ d = "a" /\ dag = Some("b")

InitRes == Start({f \in [DagNames -> DagCtorArgs] : f[RootName] = WithLists /\ f["a"] = WithLists},
                 {NoArg})

NextRes ==
    \/ \E dag \in NestArgs, decl \in DeclArgs : NoPending /\ NewTask(dag, decl[1], decl[2])
    \/ \E d \in DagNames, t \in 1..MaxTasks :
          AddsLatest(t) /\ NestsUnder(d, task_obj[t].dag) /\ DagAddTask(d, t)
    \/ DagBuildVolumeClaimTemplates(RootName)
    \/ DagBuildPersistentVolumeClaims(RootName)

SpecRes == InitRes /\ [][NextRes]_vars

\* SpecParse: the normalisations of convenience-typed arguments.
InitParse == Start({[d \in DagNames |-> WithLists]}, {NoArg})

NextParse ==
    \/ \E inputs \in InputsArgs : DagParseInputs(inputs)
    \/ \E inputs \in InputsArgs : WfParseInputs(inputs)
    \/ \E metrics \in MetricsArgs : WfParseMetrics(metrics)
    \/ OnExitOther

SpecParse == InitParse /\ [][NextParse]_vars

\* SpecParam: back-references to the declared outputs of DAGs and inputs of a Workflow.
WorkflowInputsArgs ==
    {NoArg,
     [shape |-> "dict", items |-> <<Entry("p", Lit("1"))>>],
     [shape |-> "list", items |-> <<Artifact("q", Lit("/f")), Parameter("p", Lit("1"))>>]}

InitParam ==
    Start([DagNames -> {DAG_init(o, Some(<<>>)) : o \in OutputsArgs}], WorkflowInputsArgs)

NextParam ==
    \/ \E d \in DagNames, name \in ParamNames \cup {"r"} : DagGetParameter(d, name)
    \/ \E name \in ParamNames \cup {"r"} : WfGetParameter(name)

SpecParam == InitParam /\ [][NextParam]_vars

\* SpecExit: units registered in the scopes of the Workflow and of DAG "a", and
\* the exit hook set to units and to DAG "a".
InitExit == Start({f \in [DagNames -> DagCtorArgs] : f["a"] = WithLists /\ f["b"] = Defaults},
                  {NoArg})

NextExit ==
    \/ Len(task_obj) < MaxSessionTasks /\ NewTask(None, <<>>, <<>>)
    \/ DagEnter("a")
    \/ DagExit("a")
    \/ WfEnter
    \/ WfExit
    \/ \E t \in 1..MaxTasks : OnExitTask(t)
    \/ Len(task_obj) < MaxSessionTasks /\ OnExitDag("a")
    \/ OnExitOther
    \/ WfBuild
    \/ \E d \in {RootName, "a"} : DagBuildDagTasks(d)

SpecExit == InitExit /\ [][NextExit]_vars

\* SpecPass: units, some of them nesting DAG "a" or "b", registered in the scope of the
\* Workflow and in the scope of DAG "a" opened alone or inside it, a unit made the
\* exit hook, and every operation of the build pass called on the root DAG.
InitPass == Start({f \in [DagNames -> DagCtorArgs] :
                      f[RootName] = WithLists /\ f["a"] = WithLists /\ f["b"] = Defaults},
                  {NoArg})

NextPass ==
    \/ \E dag \in NestArgs :
          /\ Len(task_obj) < MaxSessionTasks
          /\ context_stack # <<>>
          /\ NestsUnder(Top(context_stack), dag)
          /\ NewTask(dag, <<"v">>, <<"w">>)
    \/ DagEnter("a")
    \/ DagExit("a")
    \/ scopes = <<>> /\ WfEnter
    \/ WfExit
    \/ \E t \in 1..MaxTasks : OnExitTask(t)
    \/ WfBuild
    \/ DagBuild(RootName)
    \/ DagBuildTemplates(RootName)
    \/ DagBuildDagTasks(RootName)
    \/ DagBuildVolumeClaimTemplates(RootName)
    \/ DagBuildPersistentVolumeClaims(RootName)

SpecPass == InitPass /\ [][NextPass]_vars

\* SpecThreads: two sessions run concurrently, each on a DAG of its own that was
\* constructed with the defaults or with its lists given; the steps of the two
\* interleave in every order, and the task lists are compiled at any point.
InitThreads == Start({f \in [DagNames -> DagCtorArgs] : f[RootName] = Defaults}, {NoArg})

NextThreads ==
    \/ \E s \in SessionIds : SessionEnter(s)
    \/ \E s \in SessionIds : SessionTask(s)
    \/ \E s \in SessionIds : SessionExit(s)
    \/ \E s \in SessionIds : DagBuildDagTasks(SessionDag(s))

SpecThreads == InitThreads /\ [][NextThreads]_vars

\* ------------------------------------------------------------------ claims
Arg(i) == result.args[i]
Templates == result.val.spec.templates
Named(ts, n) == {j \in 1..Len(ts) : ts[j].name = n}
OwnsNoUnits(d) == dag_obj[d].tasks = None \/ dag_obj[d].tasks = Some(<<>>)

\* root -> unit -> "a" -> unit -> "b", and "b" owns no unit
IsChain3 ==
    /\ dag_obj[RootName].tasks # None /\ Children(RootName) = <<"a">>
    /\ Len(dag_obj[RootName].tasks[1]) = 1
    /\ dag_obj["a"].tasks # None /\ Children("a") = <<"b">>
    /\ Len(dag_obj["a"].tasks[1]) = 1
    /\ OwnsNoUnits("b")

\* C1: for every acyclic nesting tree of pipelines, the template list built by
\* Workflow.build holds exactly one template per pipeline of the tree, named after
\* it; the chain pipeline -> unit -> pipeline -> unit -> pipeline yields exactly
\* three templates.
C1_OneTemplatePerPipeline ==
    (result.op = "Workflow.build" /\ IsTree(RootName)) =>
        /\ result.exc = ""
        /\ \A d \in Under(RootName) : Cardinality(Named(Templates, d)) = 1
        /\ IsChain3 => Len(Templates) = 3

\* C5: a pipeline that owns no units of work, the default-constructed one
\* included, compiles without error to exactly one template, named after it, with
\* an empty task list, and both shared-resource collections are empty.
C5_EmptyPipelineCompiles ==
    /\ (result.op = "DAG.build" /\ OwnsNoUnits(Arg(1))) =>
           /\ result.exc = ""
           /\ Len(result.val) = 1
           /\ result.val[1].name = Arg(1)
           /\ result.val[1].dag = Some([tasks |-> <<>>])
    /\ (/\ result.op \in {"DAG._build_volume_claim_templates",
                          "DAG._build_persistent_volume_claims"}
        /\ OwnsNoUnits(Arg(1))) =>
           result.exc = "" /\ result.val = <<>>

Flattenings == {"DAG._build_volume_claim_templates", "DAG._build_persistent_volume_claims"}
Declared(t, op) ==
    IF op = "DAG._build_volume_claim_templates" THEN Task_build_volume_claim_templates(t)
    ELSE Task_build_persistent_volume_claims(t)

\* a unit, then the units of its nested pipeline, then the next sibling unit
RECURSIVE PreOrder(_, _, _)
PreOrder(d, op, depth) ==
    IF depth = 0 \/ dag_obj[d].tasks = None THEN <<>>
    ELSE LET ts == OwnedTasks(d)
         IN Flatten([i \in 1..Len(ts) |->
                Declared(ts[i], op) \o
                (IF ts[i].dag = None THEN <<>> ELSE PreOrder(ts[i].dag[1], op, depth - 1))])

\* all the units a pipeline owns, then the nested pipelines of those units in turn
RECURSIVE OwnFirst(_, _, _)
OwnFirst(d, op, depth) ==
    IF depth = 0 \/ dag_obj[d].tasks = None THEN <<>>
    ELSE LET ts == OwnedTasks(d)
         IN Flatten([i \in 1..Len(ts) |-> Declared(ts[i], op)]) \o
            Flatten([i \in 1..Len(ts) |->
                IF ts[i].dag = None THEN <<>> ELSE OwnFirst(ts[i].dag[1], op, depth - 1)])

LastNamed(walk, n) == walk[CHOOSE j \in Named(walk, n) : \A k \in Named(walk, n) : k <= j]

\* the result holds one entry per name declared in the walk: the last one of the walk
LastWins(walk) ==
    /\ \A j \in 1..Len(result.val) : Named(walk, result.val[j].name) # {}
    /\ \A j \in 1..Len(walk) :
          /\ Cardinality(Named(result.val, walk[j].name)) = 1
          /\ \E k \in 1..Len(result.val) : result.val[k] = LastNamed(walk, walk[j].name)

\* C2 (as stated): the returned collection holds exactly one entry per declared
\* name, the declaration visited last in a pre-order traversal of the nesting tree.
C2_LastInPreOrderWins ==
    (result.op \in Flattenings /\ result.exc = "") =>
        LastWins(PreOrder(Arg(1), result.op, MaxDepth))

\* C2 (amended): when every pipeline under the pipeline has a task list the call
\* returns a collection with exactly one entry per declared name, the declaration
\* visited last when all units the pipeline owns are visited first and the nested
\* pipelines of those units after them, in owned order; otherwise the call raises.
C2_LastOwnFirstWins ==
    result.op \in Flattenings =>
        IF Acyclic(Arg(1)) /\ \A e \in Under(Arg(1)) : dag_obj[e].tasks # None
        THEN result.exc = "" /\ LastWins(OwnFirst(Arg(1), result.op, MaxDepth))
        ELSE result.exc \in {"TypeError", "RecursionError"}

\* a name declared at two depths, where the two orders end on different declarations
C2_Witness ==
    /\ result.op \in Flattenings /\ result.exc = ""
    /\ \E n \in {"v", "w"} :
          /\ Cardinality(Named(OwnFirst(Arg(1), result.op, MaxDepth), n)) >= 2
          /\ LastNamed(OwnFirst(Arg(1), result.op, MaxDepth), n)
                 # LastNamed(PreOrder(Arg(1), result.op, MaxDepth), n)
          /\ \E k \in 1..Len(result.val) :
                result.val[k] = LastNamed(OwnFirst(Arg(1), result.op, MaxDepth), n)

HasTemplate(r, n) == r.exc = "" /\ Named(r.val.spec.templates, n) # {}

\* C3: after Workflow.on_exit(d) with a pipeline d, whatever scopes are open,
\* on_exit_ is d's own name and every later build holds the template of d and of
\* everything nested under d.
C3_ExitDagPropagates ==
    /\ (result.op = "on_exit" /\ Arg(1) = "DAG") =>
           result.exc = "" /\ wf.on_exit_ = Some(Arg(2))
    /\ (wf.on_exit_ # None /\ wf.on_exit_[1] \in DagNames) =>
           \A e \in Under(wf.on_exit_[1]) : HasTemplate(Workflow_build, e)

Unflagged(d) == SelectSeq(OwnedTasks(d), LAMBDA t : ~t.is_exit_task)
OwnsFlagged(d) ==
    dag_obj[d].tasks # None /\ \E i \in 1..Len(OwnedTasks(d)) : OwnedTasks(d)[i].is_exit_task

\* one descriptor per owned unit that is not exit-flagged, in owned order, and none
\* for a flagged one
Describes(d, descriptors) ==
    /\ [j \in 1..Len(descriptors) |-> descriptors[j].name]
           = [j \in 1..Len(Unflagged(d)) |-> Unflagged(d)[j].name]
    /\ \A i \in 1..Len(OwnedTasks(d)) :
          OwnedTasks(d)[i].is_exit_task => Named(descriptors, OwnedTasks(d)[i].name) = {}

C6_ScopedRegistration ==
    /\ (result.op = "Task" /\ context_stack # <<>>) =>
           /\ result.exc = ""
           /\ \A d \in DagNames :
                 IF d = Top(context_stack)
                 THEN /\ dag_obj[d].tasks # None
                      /\ Cardinality({i \in 1..Len(dag_obj[d].tasks[1]) :
                                         dag_obj[d].tasks[1][i] = Arg(1)}) = 1
                 ELSE dag_obj[d].tasks = None \/ Arg(1) \notin Range(dag_obj[d].tasks[1])
    /\ context_stack =
           [i \in 1..Len(scopes) |-> IF scopes[i] = "workflow" THEN RootName ELSE scopes[i]]

Width(i) == IF IsParameter(i) \/ IsArtifact(i) THEN 1 ELSE IF IsDict(i) THEN Len(i.entries) ELSE 0

\* the number of results the first n elements of a list stand for
RECURSIVE Offset(_, _)
Offset(items, n) == IF n = 0 THEN 0 ELSE Offset(items, n - 1) + Width(items[n])

Normalised(inputs, out) ==
    IF inputs.shape = "None" THEN out = <<>>
    ELSE IF inputs.shape = "dict"
    THEN /\ Len(out) = Len(inputs.items)
         /\ \A j \in 1..Len(inputs.items) :
               out[j] = Parameter(inputs.items[j].k, inputs.items[j].v)
    ELSE /\ Len(out) = Offset(inputs.items, Len(inputs.items))
         /\ \A i \in 1..Len(inputs.items) :
               /\ (IsParameter(inputs.items[i]) \/ IsArtifact(inputs.items[i])) =>
                      out[Offset(inputs.items, i - 1) + 1] = inputs.items[i]
               /\ IsDict(inputs.items[i]) =>
                      \A j \in 1..Len(inputs.items[i].entries) :
                          out[Offset(inputs.items, i - 1) + j]
                              = Parameter(inputs.items[i].entries[j].k, inputs.items[i].entries[j].v)

C8_BackReference ==
    /\ result.op = "DAG.get_parameter" =>
           IF /\ dag_obj[Arg(1)].outputs # None
              /\ Named(dag_obj[Arg(1)].outputs[1], Arg(2)) # {}
           THEN result.exc = "" /\ result.val = Parameter(Arg(2), <<"inputs.parameters", Arg(2)>>)
           ELSE result.exc = "KeyError"
    /\ result.op = "Workflow.get_parameter" =>
           IF Named(SelectSeq(wf.inputs, IsParameter), Arg(1)) # {}
           THEN result.exc = "" /\ result.val = Parameter(Arg(1), <<"workflow.parameters", Arg(1)>>)
           ELSE result.exc = "KeyError"

\* C9: a value or list element of none of the recognised shapes, given as the
\* metrics setting, the exit-hook target or the inputs, raises at the call and is
\* never dropped.
C9_UnrecognisedShapeRaises ==
    /\ (/\ result.op \in {"DAG._parse_inputs", "Workflow._parse_inputs"}
        /\ \/ parse_arg.shape = "int"
           \/ /\ parse_arg.shape = "list"
              /\ \E j \in 1..Len(parse_arg.items) : Width(parse_arg.items[j]) = 0
                                                   /\ ~IsDict(parse_arg.items[j])) =>
           result.exc # ""
    /\ (/\ result.op = "Workflow._parse_metrics"
        /\ \/ parse_arg.shape = "int"
           \/ /\ parse_arg.shape = "list"
              /\ \E j \in 1..Len(parse_arg.items) : parse_arg.items[j].kind # "Prometheus") =>
           result.exc # ""
    /\ (result.op = "on_exit" /\ Arg(1) = "int") =>
           result.exc = "ValueError" /\ wf.on_exit_ = None

\* C10: Workflow.create called while the root pipeline is still on the context
\* stack fails with the state-misuse error and calls no service.
C10_CreateInOpenScopeFails ==
    (result.op = "Workflow.create" /\ RootName \in Range(context_stack)) =>
        result.exc = "ValueError"
BuildOps ==
    {"Workflow.build", "DAG.build", "DAG._build_templates", "DAG._build_dag_tasks",
     "DAG._build_volume_claim_templates", "DAG._build_persistent_volume_claims"}

RecursiveOps == BuildOps \ {"DAG._build_dag_tasks"}
PassRoot == IF result.op = "Workflow.build" THEN RootName ELSE Arg(1)

\* the units owned by the pipelines under d
UnitsUnder(d) ==
    {t \in 1..Len(task_obj) :
        \E e \in Under(d) : dag_obj[e].tasks # None /\ t \in Range(dag_obj[e].tasks[1])}

HasPipelineTemplates(ts, d) ==
    \A e \in Under(d) :
        \E j \in Named(ts, e) : ts[j].dag = Some([tasks |-> DAG_build_dag_tasks(e)])
HasUnitTemplates(ts, d) ==
    \A t \in UnitsUnder(d) : task_obj[t].dag = None => Named(ts, task_obj[t].name) # {}
HasDeclarations(vs, d, op) ==
    \A t \in UnitsUnder(d) :
        \A j \in 1..Len(Declared(task_obj[t], op)) : Named(vs, Declared(task_obj[t], op)[j].name) # {}

\* nothing of the tree under the pipeline is missing from what the operation returned
FullyFormed ==
    IF result.op = "DAG.build" THEN HasPipelineTemplates(result.val, PassRoot)
    ELSE IF result.op = "DAG._build_templates" THEN HasUnitTemplates(result.val, PassRoot)
    ELSE IF result.op \in Flattenings THEN HasDeclarations(result.val, PassRoot, result.op)
    ELSE /\ HasPipelineTemplates(result.val.spec.templates, RootName)
         /\ HasUnitTemplates(result.val.spec.templates, RootName)
         /\ HasDeclarations(result.val.spec.volume_claim_templates, RootName,
                             "DAG._build_volume_claim_templates")
         /\ HasDeclarations(result.val.spec.volumes, RootName,
                             "DAG._build_persistent_volume_claims")

\* the recursion came to an end by itself, with all of the result or an error and
\* no result
EndsWhole ==
    /\ result.exc # "RecursionError"
    /\ IF result.exc = "" THEN FullyFormed ELSE result.val = <<>>

\* C12 (as stated): template flattening, DAG.build, both flattenings and
\* Workflow.build on an acyclic nesting end by themselves, with a fully-formed
\* result or with an error and no partial result; on a nesting with a cycle the
\* call never comes to an end, so no outcome of it, result or error, is ever seen.
C12_CycleNeverTerminates ==
    result.op \in RecursiveOps => Acyclic(PassRoot) /\ EndsWhole

\* C12 (amended): on an acyclic nesting as stated; on a nesting with a cycle the
\* traversal is not guarded and the call never returns a result: it ends with an
\* error, RecursionError at the interpreter's recursion limit or the TypeError of
\* a pipeline without its lists met before.
C12_CycleRaises ==
    result.op \in RecursiveOps =>
        IF Acyclic(PassRoot) THEN EndsWhole
        ELSE result.exc \in {"RecursionError", "TypeError"} /\ result.val = <<>>

\* DAG.build of a pipeline nested under itself, all lists given
C12_Witness ==
    /\ result.op = "DAG.build"
    /\ Arg(1) \in Below(Arg(1))
    /\ AllLists(Arg(1))
    /\ result.exc = "RecursionError"

\* a pipeline, then for each unit it owns, in owned order, the whole subtree of the
\* pipeline nested in that unit
RECURSIVE PreOrderNames(_, _)
PreOrderNames(d, depth) ==
    IF depth = 0 THEN <<>>
    ELSE <<d>> \o Flatten([i \in 1..Len(Children(d)) |->
                              PreOrderNames(Children(d)[i], depth - 1)])

TemplateNames(ts) == [j \in 1..Len(ts) |-> ts[j].name]

\* C14: the templates DAG.build returns are in pre-order of the nesting tree: the
\* pipeline's own template first, then the subtrees of the units it owns, left to
\* right in owned order, each again in pre-order; the order is a function of the
\* tree alone.
C14_TemplatesInPreOrder ==
    (result.op = "DAG.build" /\ result.exc = "") =>
        /\ TemplateNames(result.val) = PreOrderNames(Arg(1), MaxDepth)
        /\ result.val[1].name = Arg(1)

\* two sibling units nesting "a", which nests "b": the subtree of the first
\* sibling comes before the second sibling
C14_Witness ==
    /\ result.op = "DAG.build" /\ result.exc = ""
    /\ Children(RootName) = <<"a", "a">>
    /\ Children("a") = <<"b">>
    /\ TemplateNames(result.val) = <<RootName, "a", "b", "a", "b">>

\* the unit is the one the hook target stands for: the unit named, or the wrapper
\* of the pipeline named
BacksHook(t) ==
    IF task_obj[t].dag = None THEN wf.on_exit_ = Some(task_obj[t].name)
    ELSE wf.on_exit_ = Some(task_obj[t].name) \/ wf.on_exit_ = task_obj[t].dag

Flagged(d) == {t \in UnitsUnder(d) : task_obj[t].is_exit_task}

\* C15: whatever Workflow.on_exit calls were made, at most one unit under the root
\* pipeline is exit-flagged, a flagged unit is the one on_exit_ stands for, and
\* every other owned unit (one an earlier call flagged included) has its
\* descriptor in the descriptor list of its pipeline.
C15_ExitFlagsFollowHook ==
    /\ Cardinality(Flagged(RootName)) <= 1
    /\ \A t \in Flagged(RootName) : BacksHook(t)
    /\ \A d \in Under(RootName) :
          dag_obj[d].tasks # None =>
             \A i \in 1..Len(dag_obj[d].tasks[1]) :
                ~BacksHook(dag_obj[d].tasks[1][i]) =>
                    Named(DAG_build_dag_tasks(d), task_obj[dag_obj[d].tasks[1][i]].name) # {}

\* C16: in every specification Workflow.build returns, whatever scopes were
\* entered and left, units constructed and hooks set before, the entrypoint is the
\* root pipeline's name and names a template of the template list, and so does the
\* hook target on_exit when it is set.
C16_NamesResolve ==
    (result.op = "Workflow.build" /\ result.exc = "") =>
        /\ result.val.spec.entrypoint = RootName
        /\ Named(Templates, result.val.spec.entrypoint) # {}
        /\ result.val.spec.on_exit = wf.on_exit_
        /\ wf.on_exit_ # None => Named(Templates, wf.on_exit_[1]) # {}

UnitIn(t, d) == dag_obj[d].tasks # None /\ t \in Range(dag_obj[d].tasks[1])
OtherSession(s) == CHOOSE o \in SessionIds : o # s

\* the session's unit is in the other session's pipeline, and its scope-exit left
\* its own pipeline on the stack, having popped the other one
MixedUp(s) ==
    /\ session[s].unit # None
    /\ UnitIn(session[s].unit[1], SessionDag(OtherSession(s)))
    /\ ~UnitIn(session[s].unit[1], SessionDag(s))
    /\ result.op = "DAG.__exit__" /\ Arg(1) = SessionDag(s)
    /\ SessionDag(s) \in Range(context_stack)

\* C13 (the interleavings it says are reachable): a state in which a session's
\* unit is registered in the other session's pipeline and its scope-exit popped
\* the other session's pipeline.
C13_SessionsMixedUp == \E s \in SessionIds : MixedUp(s)

\* C13: of two sessions that each enter the scope of their own pipeline,
\* construct a unit and leave the scope, one run after the other (neither inside
\* its scope while the other is), each has its unit in its own pipeline and in no
\* other, and its scope-exit takes its own pipeline off the stack.
C13_SequentialSessionsKeepApart ==
    \A s \in SessionIds :
        (session[s].alone /\ session[s].pc \in {"exit", "done"}) =>
            /\ session[s].unit # None
            /\ \A d \in DagNames : UnitIn(session[s].unit[1], d) <=> d = SessionDag(s)
            /\ session[s].pc = "done" => SessionDag(s) \notin Range(context_stack)
====
